---- MODULE Spec2Model ----
(***************************************************************************)
(* Webhook signature verification (Webhooks.ts) and the retrying HTTP      *)
(* client (FetchHttpClient.ts) of the ACP node SDK.                        *)
(*                                                                         *)
(* A string is a sequence of one-character strings ("t", "=", "1", ...);   *)
(* the character U+FFFD is written "uFFFD" and U+0000 "u0000".  A byte is  *)
(* the pair of its two lowercase hex digits, <<"7","b">>.  A number is a   *)
(* TLA+ integer; NaN and undefined are separate values.                    *)
(***************************************************************************)
EXTENDS Integers, Sequences, FiniteSets, TLC

----------------------------------------------------------------------------
(* Bounds of the model. *)

\* The clock (seconds since the epoch) at which every behaviour starts.
Epoch == 1000

\* How many times the transport may alter the payload or the header.
MaxTamper == 1

\* The largest maxNetworkRetries a caller passes in the options of a request.
MaxNetworkRetries == 3

\* The maxNetworkRetries of the calls that are followed deep into the backoff,
\* to where the cap of 30 seconds is reached.
MaxBackoffRetries == 7

----------------------------------------------------------------------------
(* JavaScript values the code handles. *)

\* `undefined`: the value of a destructured array slot that does not exist.
Undefined == <<"undefined">>

\* NaN, and a finite number, as parseInt returns them.
NaN == [nan |-> TRUE, val |-> 0]

Num(n) == [nan |-> FALSE, val |-> n]

\* An optional argument: <<>> when the caller omits it, <<x>> when given.
Omitted == <<>>

Given(x) == <<x>>

DigitChars == <<"0", "1", "2", "3", "4", "5", "6", "7", "8", "9">>

DigitValue == [c \in {DigitChars[i] : i \in 1..10} |->
                 (CHOOSE i \in 1..10 : DigitChars[i] = c) - 1]

IsDigit(c) == c \in DOMAIN DigitValue

DigitVal(c) == DigitValue[c]

IsWhitespace(c) == c = " "

RECURSIVE NatToString(_)
NatToString(n) ==
  IF n < 10 THEN <<DigitChars[n + 1]>>
  ELSE NatToString(n \div 10) \o <<DigitChars[(n % 10) + 1]>>

\* `${n}` for an integer n: the decimal numeral, "-" first when negative.
NumberToString(n) == IF n < 0 THEN <<"-">> \o NatToString(-n) ELSE NatToString(n)

RECURSIVE StripLeadingWhitespace(_)
StripLeadingWhitespace(s) ==
  IF s # <<>> /\ IsWhitespace(Head(s)) THEN StripLeadingWhitespace(Tail(s)) ELSE s

RECURSIVE DigitPrefix(_)
DigitPrefix(s) ==
  IF s # <<>> /\ IsDigit(Head(s)) THEN <<Head(s)>> \o DigitPrefix(Tail(s)) ELSE <<>>

RECURSIVE DigitsToNat(_)
DigitsToNat(ds) ==
  IF ds = <<>> THEN 0
  ELSE 10 * DigitsToNat(SubSeq(ds, 1, Len(ds) - 1)) + DigitVal(ds[Len(ds)])

\* parseInt(value, 10): undefined reads as the text "undefined"; leading white
\* space is skipped, one sign is read, then the longest run of digits; no digit
\* gives NaN; whatever follows the digits is ignored.
parseInt(value) ==
  IF value = Undefined THEN NaN
  ELSE LET s == StripLeadingWhitespace(value)
           signed == s # <<>> /\ Head(s) \in {"+", "-"}
           body == IF signed THEN Tail(s) ELSE s
           digits == DigitPrefix(body)
       IN IF digits = <<>> THEN NaN
          ELSE IF signed /\ Head(s) = "-" THEN Num(-DigitsToNat(digits))
          ELSE Num(DigitsToNat(digits))

\* !timestamp for a number: true of 0 (and -0) and of NaN.
Falsy(n) == n.nan \/ n.val = 0

RECURSIVE split(_, _)
\* s.split(sep) for a one-character separator: always at least one piece.
split(s, sep) ==
  IF \A i \in 1..Len(s) : s[i] # sep THEN <<s>>
  ELSE LET k == CHOOSE i \in 1..Len(s) : s[i] = sep /\ \A j \in 1..(i - 1) : s[j] # sep
       IN <<SubSeq(s, 1, k - 1)>> \o split(SubSeq(s, k + 1, Len(s)), sep)

----------------------------------------------------------------------------
(* UTF-8, as Buffer.from(string), hmac.update(string) and                   *)
(* buffer.toString('utf8') perform it, on the characters and bytes of the  *)
(* model.                                                                  *)

AsciiChars ==
  <<"u0000", " ", "+", ",", "-", ".", "0", "1", "2", "3", "4", "5", "6", "7", "8", "9",
    "=", "a", "b", "c", "d", "e", "f", "k", "t", "v", "w", "x", "{", "}">>

AsciiBytes ==
  <<<<"0","0">>, <<"2","0">>, <<"2","b">>, <<"2","c">>, <<"2","d">>, <<"2","e">>,
    <<"3","0">>, <<"3","1">>, <<"3","2">>, <<"3","3">>, <<"3","4">>,
    <<"3","5">>, <<"3","6">>, <<"3","7">>, <<"3","8">>, <<"3","9">>,
    <<"3","d">>, <<"6","1">>, <<"6","2">>, <<"6","3">>, <<"6","4">>,
    <<"6","5">>, <<"6","6">>, <<"6","b">>, <<"7","4">>, <<"7","6">>,
    <<"7","7">>, <<"7","8">>, <<"7","b">>, <<"7","d">>>>

\* The three bytes EF BF BD that encode U+FFFD.
ReplacementBytes == <<<<"e","f">>, <<"b","f">>, <<"b","d">>>>

\* The model's ASCII characters with their bytes, and back.
ByteOfChar == [c \in {AsciiChars[i] : i \in 1..Len(AsciiChars)} |->
                 AsciiBytes[CHOOSE i \in 1..Len(AsciiChars) : AsciiChars[i] = c]]

CharOfByte == [b \in {AsciiBytes[i] : i \in 1..Len(AsciiBytes)} |->
                 AsciiChars[CHOOSE i \in 1..Len(AsciiBytes) : AsciiBytes[i] = b]]

\* One character to its UTF-8 bytes; a lone surrogate ("uD800") has no
\* encoding and is written as U+FFFD.
Utf8EncodeChar(c) ==
  IF c \in DOMAIN ByteOfChar THEN <<ByteOfChar[c]>> ELSE ReplacementBytes

RECURSIVE Utf8Encode(_)
Utf8Encode(s) ==
  IF s = <<>> THEN <<>> ELSE Utf8EncodeChar(Head(s)) \o Utf8Encode(Tail(s))

RECURSIVE Utf8Decode(_)
\* buffer.toString('utf8'): an ASCII byte is its character, EF BF BD is
\* U+FFFD, and a byte that starts no valid sequence (FE, FF) becomes U+FFFD.
Utf8Decode(bytes) ==
  IF bytes = <<>> THEN <<>>
  ELSE IF Len(bytes) >= 3 /\ SubSeq(bytes, 1, 3) = ReplacementBytes
  THEN <<"uFFFD">> \o Utf8Decode(SubSeq(bytes, 4, Len(bytes)))
  ELSE IF Head(bytes) \in DOMAIN CharOfByte
  THEN <<CharOfByte[Head(bytes)]>> \o Utf8Decode(Tail(bytes))
  ELSE <<"uFFFD">> \o Utf8Decode(Tail(bytes))

RECURSIVE Hex(_)
\* digest('hex'): two lowercase hex digits per byte.
Hex(bytes) == IF bytes = <<>> THEN <<>> ELSE Head(bytes) \o Hex(Tail(bytes))

RECURSIVE HmacKey(_)
\* The key HMAC works with: the key bytes padded with zero bytes to the block
\* size of 64 bytes, so that zero bytes at the end of a key do not count.
\* (A key longer than the block size, which HMAC hashes first, is beyond the
\* secrets of the model.)
HmacKey(keyBytes) ==
  IF keyBytes # <<>> /\ keyBytes[Len(keyBytes)] = <<"0","0">>
  THEN HmacKey(SubSeq(keyBytes, 1, Len(keyBytes) - 1))
  ELSE keyBytes

\* HMAC-SHA256 as an ideal keyed function of the padded key and the message
\* bytes: distinct (padded key, message) pairs give distinct digests.  The
\* digest is written as the pair it was computed from, the byte 00 between
\* the two.
HmacSha256(keyBytes, messageBytes) == HmacKey(keyBytes) \o <<<<"0","0">>>> \o messageBytes

----------------------------------------------------------------------------
(* Webhooks *)

DEFAULT_TOLERANCE == 300

\* A payload is a string or a Buffer.
StringPayload(s) == [type |-> "string", data |-> s]

BufferPayload(b) == [type |-> "Buffer", data |-> b]

\* typeof payload === 'string' ? payload : payload.toString('utf8')
PayloadString(payload) ==
  IF payload.type = "string" THEN payload.data ELSE Utf8Decode(payload.data)

\* Mutant: the timestamp is not part of what is signed.
computeSignature_TimestampUnsigned(timestamp, payload, secret) ==
  Hex(HmacSha256(Utf8Encode(secret), Utf8Encode(payload)))

\* Mutant: the digest does not depend on the secret.
computeSignature_Unkeyed(timestamp, payload, secret) ==
  LET signedPayload == NumberToString(timestamp) \o <<".">> \o payload
  IN Hex(HmacSha256(<<>>, Utf8Encode(signedPayload)))

computeSignature(timestamp, payload, secret) ==
  LET signedPayload == NumberToString(timestamp) \o <<".">> \o payload
  IN Hex(HmacSha256(Utf8Encode(secret), Utf8Encode(signedPayload)))

\* How a call that returns a boolean completes: by returning it, or by
\* throwing.
Returned(b) == [threw |-> FALSE, returned |-> b]

Threw == [threw |-> TRUE, returned |-> FALSE]

\* crypto.timingSafeEqual(Buffer.from(a), Buffer.from(b)): Buffer.from(undefined)
\* throws a TypeError, buffers of different byte length a RangeError.
secureCompareTry(a, b) ==
  IF a = Undefined \/ b = Undefined THEN Threw
  ELSE LET ba == Utf8Encode(a)
           bb == Utf8Encode(b)
       IN IF Len(ba) # Len(bb) THEN Threw ELSE Returned(ba = bb)

\* Mutant: catch { return true }.
secureCompare_CatchReturnsTrue(a, b) ==
  LET completion == secureCompareTry(a, b)
  IN IF completion.threw THEN TRUE ELSE completion.returned

\* secureCompare: the try block, and catch { return false }.
secureCompare(a, b) ==
  LET completion == secureCompareTry(a, b)
  IN IF completion.threw THEN FALSE ELSE completion.returned

NoHeaderMessage == "No webhook signature header provided."

NoTimestampMessage == "Unable to extract timestamp from webhook header."

NoSignatureMessage == "Unable to extract signature from webhook header."

TooOldMessage == "Webhook timestamp too old."

NoMatchMessage == "Webhook signature verification failed. No matching signature found."

BadJsonMessage == "Failed to parse webhook payload as JSON."

\* new ACPSignatureVerificationError(message), thrown.
Thrown(message) ==
  [kind |-> "error", name |-> "ACPSignatureVerificationError",
   type |-> "signature_verification_error", message |-> message,
   timestamp |-> 0, signatures |-> <<>>, event |-> <<>>]

\* One turn of the loop of parseHeader over a part of the header.
ParsePart(acc, part) ==
  LET pieces == split(part, "=")
      key == pieces[1]
      value == IF Len(pieces) >= 2 THEN pieces[2] ELSE Undefined
  IN IF key = <<"t">> THEN [acc EXCEPT !.timestamp = parseInt(value)]
     ELSE IF key = <<"v", "1">> THEN [acc EXCEPT !.signatures = Append(@, value)]
     ELSE acc

RECURSIVE ParseParts(_, _)
ParseParts(acc, parts) ==
  IF parts = <<>> THEN acc ELSE ParseParts(ParsePart(acc, Head(parts)), Tail(parts))

parseHeader(header) ==
  IF header = <<>> THEN Thrown(NoHeaderMessage)
  ELSE LET acc == ParseParts([timestamp |-> Num(0), signatures |-> <<>>],
                             split(header, ","))
       IN IF Falsy(acc.timestamp) THEN Thrown(NoTimestampMessage)
          ELSE IF Len(acc.signatures) = 0 THEN Thrown(NoSignatureMessage)
          ELSE [kind |-> "header", name |-> "", type |-> "", message |-> "",
                timestamp |-> acc.timestamp.val, signatures |-> acc.signatures,
                event |-> <<>>]

\* JSON.parse on the payloads of the model, whose characters are "{", "}",
\* "1", "x" and U+FFFD: the JSON texts among them are {} and the numerals.
JsonParses(s) ==
  \/ s = <<"{", "}">>
  \/ s # <<>> /\ \A i \in 1..Len(s) : s[i] = "1"

\* JSON.parse(s): the value of the text s (written as the text itself), or
\* the SyntaxError it throws.
JSONparse(s) ==
  IF JsonParses(s)
  THEN [kind |-> "event", name |-> "", type |-> "", message |-> "", timestamp |-> 0,
        signatures |-> <<>>, event |-> s]
  ELSE [kind |-> "error", name |-> "SyntaxError", type |-> "",
        message |-> "Unexpected token", timestamp |-> 0, signatures |-> <<>>,
        event |-> <<>>]

\* The tolerance in force: the default when the caller omits the argument.
Tolerance(tolerance) == IF tolerance = Omitted THEN DEFAULT_TOLERANCE ELSE tolerance[1]

\* Mutant: only the first v1 value is compared.
FirstSignatureMatches(signatures, expectedSignature) ==
  secureCompare(signatures[1], expectedSignature)

\* header.signatures.some((sig) => secureCompare(sig, expectedSignature))
SomeSignatureMatches(signatures, expectedSignature) ==
  \E i \in 1..Len(signatures) : secureCompare(signatures[i], expectedSignature)

\* Mutant: the tolerance is taken for milliseconds.
TooOldInMilliseconds(timestampAge, tolerance) == timestampAge > tolerance * 1000

\* Mutant: an event aged exactly the tolerance is rejected.
TooOldInclusive(timestampAge, tolerance) == timestampAge >= tolerance

\* Mutant: a timestamp further ahead of the clock than the tolerance is
\* rejected too.
TooOldEitherWay(timestampAge, tolerance) ==
  timestampAge > tolerance \/ -timestampAge > tolerance

\* The freshness test of constructEvent and verifySignature.
TooOld(timestampAge, tolerance) == timestampAge > tolerance

\* Mutant: the signature is compared before the age is checked.
constructEvent_SignatureFirst(payload, signature, secret, tolerance, clock) ==
  LET payloadString == PayloadString(payload)
      header == parseHeader(signature)
  IN IF header.kind = "error" THEN header
     ELSE LET timestampAge == clock - header.timestamp
              expectedSignature == computeSignature(header.timestamp, payloadString, secret)
          IN IF ~SomeSignatureMatches(header.signatures, expectedSignature)
             THEN Thrown(NoMatchMessage)
             ELSE IF TooOld(timestampAge, Tolerance(tolerance)) THEN Thrown(TooOldMessage)
             ELSE LET parsed == JSONparse(payloadString)
                  IN IF parsed.kind = "error" THEN Thrown(BadJsonMessage) ELSE parsed

\* Mutant: a payload that does not decode gives null instead of an error.
constructEvent_DecodeFailureReturnsNull(payload, signature, secret, tolerance, clock) ==
  LET payloadString == PayloadString(payload)
      header == parseHeader(signature)
  IN IF header.kind = "error" THEN header
     ELSE LET timestampAge == clock - header.timestamp
              expectedSignature == computeSignature(header.timestamp, payloadString, secret)
          IN IF TooOld(timestampAge, Tolerance(tolerance)) THEN Thrown(TooOldMessage)
             ELSE IF ~SomeSignatureMatches(header.signatures, expectedSignature)
             THEN Thrown(NoMatchMessage)
             ELSE LET parsed == JSONparse(payloadString)
                  IN IF parsed.kind = "error"
                     THEN [parsed EXCEPT !.kind = "event", !.name = ""]
                     ELSE parsed

\* Mutant: JSON.parse is called outside try/catch, so its SyntaxError escapes.
constructEvent_NoJsonCatch(payload, signature, secret, tolerance, clock) ==
  LET payloadString == PayloadString(payload)
      header == parseHeader(signature)
  IN IF header.kind = "error" THEN header
     ELSE LET timestampAge == clock - header.timestamp
              expectedSignature == computeSignature(header.timestamp, payloadString, secret)
          IN IF TooOld(timestampAge, Tolerance(tolerance)) THEN Thrown(TooOldMessage)
             ELSE IF ~SomeSignatureMatches(header.signatures, expectedSignature)
             THEN Thrown(NoMatchMessage)
             ELSE LET parsed == JSONparse(payloadString)
                  IN parsed

\* constructEvent at clock value clock (Math.floor(Date.now() / 1000)): the
\* event it returns or the error it throws.
constructEvent(payload, signature, secret, tolerance, clock) ==
  LET payloadString == PayloadString(payload)
      header == parseHeader(signature)
  IN IF header.kind = "error" THEN header
     ELSE LET timestampAge == clock - header.timestamp
              expectedSignature == computeSignature(header.timestamp, payloadString, secret)
          IN IF TooOld(timestampAge, Tolerance(tolerance)) THEN Thrown(TooOldMessage)
             ELSE IF ~SomeSignatureMatches(header.signatures, expectedSignature)
             THEN Thrown(NoMatchMessage)
             ELSE LET parsed == JSONparse(payloadString)
                  IN IF parsed.kind = "error" THEN Thrown(BadJsonMessage) ELSE parsed

\* Mutant: the tolerance argument is ignored and the default is used.
verifySignatureTry_DefaultToleranceOnly(payload, signature, secret, tolerance, clock) ==
  LET payloadString == PayloadString(payload)
      header == parseHeader(signature)
  IN IF header.kind = "error" THEN Threw
     ELSE LET timestampAge == clock - header.timestamp
              expectedSignature == computeSignature(header.timestamp, payloadString, secret)
          IN IF TooOld(timestampAge, DEFAULT_TOLERANCE) THEN Returned(FALSE)
             ELSE Returned(SomeSignatureMatches(header.signatures, expectedSignature))

\* The try block of verifySignature at clock value clock.
verifySignatureTry(payload, signature, secret, tolerance, clock) ==
  LET payloadString == PayloadString(payload)
      header == parseHeader(signature)
  IN IF header.kind = "error" THEN Threw
     ELSE LET timestampAge == clock - header.timestamp
              expectedSignature == computeSignature(header.timestamp, payloadString, secret)
          IN IF TooOld(timestampAge, Tolerance(tolerance)) THEN Returned(FALSE)
             ELSE Returned(SomeSignatureMatches(header.signatures, expectedSignature))

\* Mutant: no catch, so what the try block throws escapes.
verifySignature_NoCatch(payload, signature, secret, tolerance, clock) ==
  verifySignatureTry(payload, signature, secret, tolerance, clock)

\* verifySignature: the try block, and catch { return false }.
verifySignature(payload, signature, secret, tolerance, clock) ==
  LET completion == verifySignatureTry(payload, signature, secret, tolerance, clock)
  IN IF completion.threw THEN Returned(FALSE) ELSE completion

\* Mutant: the fields are joined with ", " instead of ",".
generateTestHeaderString_SpaceAfterComma(payload, secret, timestampOpt, clock) ==
  LET timestamp == IF timestampOpt = Omitted THEN clock ELSE timestampOpt[1]
      signature == computeSignature(timestamp, payload, secret)
  IN <<"t", "=">> \o NumberToString(timestamp) \o <<",", " ", "v", "1", "=">> \o signature

\* Mutant: opts.timestamp || now instead of opts.timestamp ?? now.
generateTestHeaderString_OrDefault(payload, secret, timestampOpt, clock) ==
  LET timestamp == IF timestampOpt = Omitted \/ timestampOpt[1] = 0 THEN clock
                   ELSE timestampOpt[1]
      signature == computeSignature(timestamp, payload, secret)
  IN <<"t", "=">> \o NumberToString(timestamp) \o <<",", "v", "1", "=">> \o signature

\* generateTestHeaderString at clock value clock.
generateTestHeaderString(payload, secret, timestampOpt, clock) ==
  LET timestamp == IF timestampOpt = Omitted THEN clock ELSE timestampOpt[1]
      signature == computeSignature(timestamp, payload, secret)
  IN <<"t", "=">> \o NumberToString(timestamp) \o <<",", "v", "1", "=">> \o signature


----------------------------------------------------------------------------
(* FetchHttpClient: one call of makeRequest, from await to await.           *)

DEFAULT_TIMEOUT == 80000

DEFAULT_MAX_RETRIES == 2

\* A message: a literal text (detail), or a template of the code with the
\* number and the text it interpolates.
Message(template, number, detail) ==
  [template |-> template, number |-> number, detail |-> detail]

Text(detail) == Message("", 0, detail)

\* A request identifier: one generateRequestId made (the call that made it and
\* which of that call's identifiers it is), one a server sent, or none.
NoRequestId == [by |-> "none", call |-> "", n |-> 0]

ServerRequestId(n) == [by |-> "server", call |-> "", n |-> n]

\* A response body: JSON or not, the JSON value null or an object, and the
\* error.message and error.param the object holds ("" for none).
NotJsonBody == [json |-> FALSE, null |-> FALSE, message |-> "", param |-> ""]

JsonBody(message) == [json |-> TRUE, null |-> FALSE, message |-> message, param |-> ""]

JsonBodyWithParam(message, param) ==
  [json |-> TRUE, null |-> FALSE, message |-> message, param |-> param]

NullBody == [json |-> TRUE, null |-> TRUE, message |-> "", param |-> ""]

\* An error object: its class, its message, its statusCode, its param ("" for
\* undefined) and its requestId.
Error(name, message, statusCode, param, requestId) ==
  [kind |-> "error", name |-> name, message |-> message, statusCode |-> statusCode,
   param |-> param, requestId |-> requestId, data |-> NotJsonBody]

NoOutcome == [kind |-> "none", name |-> "", message |-> Text(""), statusCode |-> 0,
              param |-> "", requestId |-> NoRequestId, data |-> NotJsonBody]

\* The value makeRequest returns: the decoded body of the response.
Result(body) ==
  [kind |-> "result", name |-> "", message |-> Text(""), statusCode |-> 0,
   param |-> "", requestId |-> NoRequestId, data |-> body]

\* new ACPConnectionError(message): the constructor takes no requestId.
ACPConnectionError(message) == Error("ACPConnectionError", message, 0, "", NoRequestId)

\* Mutant: the default branch takes every status for a client error.
ACPErrorGenerate_DefaultInvalidRequest(statusCode, body, requestId) ==
  LET message == IF body.message # "" THEN Text(body.message)
                 ELSE Message("Request failed with status ", statusCode, "")
      param == body.param
  IN CASE statusCode = 400 ->
            Error("ACPInvalidRequestError", message, statusCode, param, requestId)
       [] statusCode = 401 -> Error("ACPAuthenticationError", message, 401, "", requestId)
       [] statusCode = 403 -> Error("ACPPermissionError", message, 403, "", requestId)
       [] statusCode = 404 -> Error("ACPNotFoundError", message, 404, "", requestId)
       [] statusCode = 429 -> Error("ACPRateLimitError", message, 429, "", requestId)
       [] OTHER -> Error("ACPInvalidRequestError", message, statusCode, param, requestId)

\* Mutant: every status in 400-499 is taken for an invalid request.
ACPErrorGenerate_NoSwitch(statusCode, body, requestId) ==
  LET message == IF body.message # "" THEN Text(body.message)
                 ELSE Message("Request failed with status ", statusCode, "")
  IN IF statusCode >= 400 /\ statusCode < 500
     THEN Error("ACPInvalidRequestError", message, statusCode, body.param, requestId)
     ELSE Error("ACPAPIError", message, statusCode, "", requestId)

\* ACPError.generate(statusCode, body, requestId): body?.error || body || {}
\* is the object whose message and param are read, {} for a null body and for
\* a response that was not JSON.
ACPErrorGenerate(statusCode, body, requestId) ==
  LET message == IF body.message # "" THEN Text(body.message)
                 ELSE Message("Request failed with status ", statusCode, "")
      param == body.param
  IN CASE statusCode = 400 ->
            Error("ACPInvalidRequestError", message, statusCode, param, requestId)
       [] statusCode = 401 -> Error("ACPAuthenticationError", message, 401, "", requestId)
       [] statusCode = 403 -> Error("ACPPermissionError", message, 403, "", requestId)
       [] statusCode = 404 -> Error("ACPNotFoundError", message, 404, "", requestId)
       [] statusCode = 429 -> Error("ACPRateLimitError", message, 429, "", requestId)
       [] OTHER -> IF statusCode >= 400 /\ statusCode < 500
                   THEN Error("ACPInvalidRequestError", message, statusCode, param,
                              requestId)
                   ELSE Error("ACPAPIError", message, statusCode, "", requestId)

\* new ACPRateLimitError(errorBody?.error?.message, requestId): the default
\* message stands in for undefined.
RateLimitError(body, requestId) ==
  Error("ACPRateLimitError",
        IF body.message # "" THEN Text(body.message) ELSE Text("Rate limit exceeded"),
        429, "", requestId)

\* Mutant: the delay is not capped.
getBackoffMs_Uncapped(attempt, jitter) == ((2 ^ attempt) * 500 * jitter) \div 100

\* getBackoffMs(attempt), jitter being (Math.random() * 0.5 + 0.75) in percent.
getBackoffMs(attempt, jitter) ==
  LET baseDelay == (2 ^ attempt) * 500
      delay == (baseDelay * jitter) \div 100
  IN IF delay < 30000 THEN delay ELSE 30000

\* Mutant: the Retry-After header is not read.
RetryAfter_HeaderIgnored(retryAfter) == Num(1)

\* parseInt(response.headers.get('Retry-After') || '1', 10)
RetryAfter(retryAfter) ==
  parseInt(IF retryAfter = Omitted \/ retryAfter[1] = <<>> THEN <<"1">> ELSE retryAfter[1])

\* response.headers.get('x-request-id') || requestId
ResponseRequestId(xRequestId, requestId) ==
  IF xRequestId = Omitted THEN requestId ELSE xRequestId[1]

\* response.ok
Ok(status) == status >= 200 /\ status <= 299

\* Mutant: only 400 is taken for a client error.
IsClientError_Only400(status) == status = 400

\* response.status >= 400 && response.status < 500 && response.status !== 429
IsClientError(status) == status >= 400 /\ status < 500 /\ status # 429

\* Mutant: the loop runs while attempt < maxRetries.
LoopContinues_Exclusive(attempt, maxRetries) == attempt < maxRetries

\* The test of the for loop: attempt <= maxRetries.
LoopContinues(attempt, maxRetries) == attempt <= maxRetries

\* The test before every sleep: attempt < maxRetries.
MayRetry(attempt, maxRetries) == attempt < maxRetries

\* RequestOptions: each of the three omitted or given.
NoOptions == [idempotencyKey |-> Omitted, timeout |-> Omitted, maxNetworkRetries |-> Omitted]

\* The headers object: the X-Request-Id and the Idempotency-Key it holds (the
\* other four headers are the same for every request of the client).
NoHeaders == [requestId |-> NoRequestId, idempotencyKey |-> Omitted]

\* The response fetch resolved with, and the body once response.json() has
\* settled.
NoResponse == [received |-> FALSE, status |-> 0, retryAfter |-> Omitted,
               xRequestId |-> Omitted, read |-> FALSE, body |-> NotJsonBody]

\* What the attempt in progress failed with: nothing yet.
NoFailure == [class |-> "none", status |-> 0, message |-> ""]

\* No call is being made.
NoCall ==
  [id |-> "", pc |-> "idle", options |-> NoOptions, maxRetries |-> 0, timeout |-> 0,
   headers |-> NoHeaders, attempt |-> 0, requests |-> 0, sleeps |-> 0, delay |-> 0,
   generated |-> 0, wire |-> <<>>, inflight |-> 0, timer |-> "none", overdue |-> FALSE,
   response |-> NoResponse, lastError |-> [set |-> FALSE, message |-> ""],
   failure |-> NoFailure,
   seen |-> {}, outcome |-> NoOutcome]

\* The headers object as built before the loop: the Idempotency-Key is set if
\* options.idempotencyKey is truthy.
RequestHeaders(options) ==
  [requestId |-> NoRequestId,
   idempotencyKey |-> IF options.idempotencyKey # Omitted /\ options.idempotencyKey[1] # ""
                      THEN options.idempotencyKey ELSE Omitted]

\* Mutant: one identifier is made for the call and sent with every attempt.
generateRequestId_OncePerCall(c) == [by |-> "client", call |-> c.id, n |-> 1]

\* generateRequestId(): `req_${Date.now()}_${nine random digits}`. The value
\* is named by the call that made it and the count of those the call has
\* made: two values made at different times are taken to differ in the clock
\* reading or in the random digits.
generateRequestId(c) == [by |-> "client", call |-> c.id, n |-> c.generated + 1]

\* Mutant: the headers are built anew for every retry, without the key.
AttemptHeaders_KeyOnFirstAttempt(c, requestId) ==
  [requestId |-> requestId,
   idempotencyKey |-> IF c.attempt = 0 THEN c.headers.idempotencyKey ELSE Omitted]

\* headers['X-Request-Id'] = requestId
AttemptHeaders(c, requestId) == [c.headers EXCEPT !.requestId = requestId]

\* The top of the for loop, attempt being set: the next physical request is
\* issued with its own identifier and its own deadline timer (fetch), or the
\* loop is left and the closing ACPConnectionError is thrown.
LoopTop(c) ==
  IF LoopContinues(c.attempt, c.maxRetries)
  THEN LET headers == AttemptHeaders(c, generateRequestId(c))
       IN [c EXCEPT !.pc = "fetching", !.generated = @ + 1, !.headers = headers,
                    !.timer = "armed", !.overdue = FALSE, !.response = NoResponse,
                    !.failure = NoFailure, !.delay = 0,
                    !.requests = @ + 1, !.inflight = @ + 1,
                    !.wire = Append(@, headers)]
  ELSE [c EXCEPT !.pc = "raised",
                 !.outcome =
                   ACPConnectionError(
                     Message("Request failed after attempts: ", c.maxRetries + 1,
                             IF c.lastError.set /\ c.lastError.message # ""
                             THEN c.lastError.message ELSE "Unknown error"))]

\* Mutant: the options override the config with || in place of ??, so that a
\* maxNetworkRetries or a timeout of 0 is taken for none.
Started_FalsyOverride(id, options, cfg) ==
  LoopTop([NoCall EXCEPT
             !.id = id,
             !.options = options,
             !.timeout = IF options.timeout = Omitted \/ options.timeout[1] = 0
                         THEN cfg.timeout ELSE options.timeout[1],
             !.maxRetries = IF options.maxNetworkRetries = Omitted
                               \/ options.maxNetworkRetries[1] = 0
                            THEN cfg.maxNetworkRetries
                            ELSE options.maxNetworkRetries[1],
             !.headers = RequestHeaders(options),
             !.attempt = 0])

\* makeRequest up to its first await: the effective timeout and maxRetries
\* are taken from the options and the config, the headers are built, and the
\* loop is entered.
Started(id, options, cfg) ==
  LoopTop([NoCall EXCEPT
             !.id = id,
             !.options = options,
             !.timeout = IF options.timeout = Omitted THEN cfg.timeout
                         ELSE options.timeout[1],
             !.maxRetries = IF options.maxNetworkRetries = Omitted
                            THEN cfg.maxNetworkRetries
                            ELSE options.maxNetworkRetries[1],
             !.headers = RequestHeaders(options),
             !.attempt = 0])

\* Mutant: the next attempt is made without waiting for the sleep.
Sleep_NotAwaited(c, ms) ==
  LoopTop([c EXCEPT !.sleeps = @ + 1, !.delay = ms, !.attempt = @ + 1])

\* await this.sleep(ms); continue
Sleep(c, ms) == [c EXCEPT !.pc = "sleeping", !.sleeps = @ + 1, !.delay = ms]

\* throw error, out of makeRequest.
Raise(c, error) == [c EXCEPT !.pc = "raised", !.outcome = error]

\* Mutant: an error caught at an earlier attempt is thrown in place of the
\* result.
Return_ThrowsLastError(c, body) ==
  IF c.lastError.set
  THEN [c EXCEPT !.pc = "raised", !.inflight = @ - 1,
                 !.outcome = ACPConnectionError(Text(c.lastError.message))]
  ELSE [c EXCEPT !.pc = "returned", !.inflight = @ - 1, !.outcome = Result(body)]

\* return data, out of makeRequest.
Return(c, body) == [c EXCEPT !.pc = "returned", !.inflight = @ - 1, !.outcome = Result(body)]

\* The attempt is over and has failed: what it failed with is noted.
Failed(c, class, status, message) ==
  [c EXCEPT !.inflight = @ - 1,
            !.failure = [class |-> class, status |-> status, message |-> message],
            !.seen = @ \cup {[class |-> class, status |-> status]}]

\* The catch block for an error that is no ACPError: an AbortError (the
\* deadline) or any other (the network, or a body that does not decode).
Catch(c, name, message, jitter) ==
  LET c1 == [c EXCEPT !.lastError = [set |-> TRUE, message |-> message]]
  IN IF name = "AbortError"
     THEN IF MayRetry(c1.attempt, c1.maxRetries)
          THEN Sleep(c1, getBackoffMs(c1.attempt, jitter))
          ELSE Raise(c1, ACPConnectionError(Message("Request timeout after ms",
                                                    c1.timeout, "")))
     ELSE IF MayRetry(c1.attempt, c1.maxRetries)
          THEN Sleep(c1, getBackoffMs(c1.attempt, jitter))
          ELSE LoopTop([c1 EXCEPT !.attempt = @ + 1])

\* The catch block for an ACPError thrown in the try block: it is rethrown.
CatchACPError(c, error) ==
  Raise([c EXCEPT !.lastError = [set |-> TRUE, message |-> error.message.detail]], error)

\* fetch has resolved with a response (its status and headers):
\* clearTimeout(timeoutId), and the body is awaited with no timer running.
Responded(c, status, retryAfter, xRequestId) ==
  [c EXCEPT !.pc = "reading", !.timer = "cleared",
            !.response = [received |-> TRUE, status |-> status, retryAfter |-> retryAfter,
                          xRequestId |-> xRequestId, read |-> FALSE, body |-> NotJsonBody]]

\* The try block from the settling of response.json() on.
OnResponse(c, body, jitter) ==
  LET status == c.response.status
      responseRequestId == ResponseRequestId(c.response.xRequestId, c.headers.requestId)
      c0 == [c EXCEPT !.response.read = TRUE, !.response.body = body]
  IN IF ~Ok(status)
     THEN LET errorBody == IF body.json THEN body ELSE JsonBody("")
          IN IF IsClientError(status)
             THEN CatchACPError(Failed(c0, "4xx", status, errorBody.message),
                                ACPErrorGenerate(status, errorBody, responseRequestId))
             ELSE IF status = 429
             THEN LET c1 == Failed(c0, "429", status, errorBody.message)
                      retryAfter == RetryAfter(c0.response.retryAfter)
                  IN IF MayRetry(c1.attempt, c1.maxRetries)
                     THEN Sleep(c1, retryAfter.val * 1000)
                     ELSE CatchACPError(c1, RateLimitError(errorBody, responseRequestId))
             ELSE LET c1 == Failed(c0, "5xx", status, errorBody.message)
                  IN IF MayRetry(c1.attempt, c1.maxRetries)
                     THEN Sleep(c1, getBackoffMs(c1.attempt, jitter))
                     ELSE CatchACPError(c1, ACPErrorGenerate(status, errorBody,
                                                             responseRequestId))
     ELSE IF body.json
     THEN Return(c0, body)
     ELSE Catch(Failed(c0, "decode", status, "Unexpected end of JSON input"),
                "SyntaxError", "Unexpected end of JSON input", jitter)

----------------------------------------------------------------------------
(* The inputs of a request. *)

\* options.idempotencyKey: omitted, a key, or the empty string.
IdempotencyKeyOpts == {Omitted, Given("key-1"), Given("")}

\* options.timeout: omitted, or one second.
TimeoutOpts == {Omitted, Given(1000)}

\* options.maxNetworkRetries: omitted, or a number from -1 up.
MaxRetriesOpts == {Omitted} \cup {Given(n) : n \in -1..MaxNetworkRetries}

RequestOptions ==
  [idempotencyKey : IdempotencyKeyOpts, timeout : TimeoutOpts,
   maxNetworkRetries : MaxRetriesOpts]

\* The statuses a server answers with.
Statuses == {200, 400, 401, 403, 404, 422, 429, 500, 503}

\* The bodies it sends.
Bodies == {NotJsonBody, NullBody, JsonBody(""), JsonBody("m1"),
           JsonBodyWithParam("m2", "items")}

\* The Retry-After header: absent, 2 seconds, or 0 seconds.
RetryAfterHeaders == {Omitted, Given(<<"2">>), Given(<<"0">>)}

\* A server sends it with a 429 or a 503 only.
RetryAfterHeadersOf(status) == IF status \in {429, 503} THEN RetryAfterHeaders ELSE {Omitted}

\* The x-request-id header of a response: absent, or an identifier.
XRequestIdHeaders == {Omitted, Given(ServerRequestId(1))}

\* Math.random() * 0.5 + 0.75, in percent: the least value, the middle, and
\* one close to the upper end.
Jitters == {75, 100, 124}

\* The messages of the errors fetch rejects with when the network fails.
NetworkMessages == {"fetch failed", "socket hang up"}

AbortMessage == "This operation was aborted"

----------------------------------------------------------------------------
(* What the network, the timer and the sleep do to a call, and two calls    *)
(* side by side.                                                           *)

\* The catch block when fetch rejects because the network failed. The
\* statement clearTimeout(timeoutId) after the await is not reached, and the
\* catch block has none: the timer of the attempt stays armed.
Rejected(c, message, jitter) ==
  Catch(Failed(c, "network", 0, message), "TypeError", message, jitter)

\* The timer of the attempt fires: controller.abort(), fetch rejects with an
\* AbortError, and the catch block takes it.
Aborted(c, jitter) ==
  Catch(Failed([c EXCEPT !.timer = "fired", !.overdue = TRUE], "timeout", 0, AbortMessage),
        "AbortError", AbortMessage, jitter)

\* The time of the deadline passes after clearTimeout: no timer is left to
\* fire, and the call goes on awaiting the body.
Overdue(c) == [c EXCEPT !.overdue = TRUE]

\* Mutant: a retry after a 429 is not counted.
Woken_RateLimitNotCounted(c) ==
  LoopTop([c EXCEPT !.attempt = IF c.failure.class = "429" THEN @ ELSE @ + 1])

\* The sleep is over: continue, that is attempt++ and the top of the loop.
Woken(c) == LoopTop([c EXCEPT !.attempt = @ + 1])

\* The config the client was constructed with.
ClientConfig == [timeout |-> DEFAULT_TIMEOUT, maxNetworkRetries |-> DEFAULT_MAX_RETRIES]

\* The two calls made side by side.
CallIds == {"A", "B"}

\* Neither has been made: for each the call and what it was fed so far.
NoCalls == [x \in CallIds |-> [c |-> NoCall, log |-> <<>>]]

\* What a call is fed: the options it is made with, and then the responses,
\* bodies, rejections, aborts and wake-ups of its own requests and sleeps.
NoEvent ==
  [type |-> "", options |-> NoOptions, status |-> 0, retryAfter |-> Omitted,
   xRequestId |-> Omitted, body |-> NotJsonBody, message |-> "", jitter |-> 0]

CallEvent(options) == [NoEvent EXCEPT !.type = "call", !.options = options]

RespondEvent(status, retryAfter, xRequestId) ==
  [NoEvent EXCEPT !.type = "respond", !.status = status, !.retryAfter = retryAfter,
                  !.xRequestId = xRequestId]

BodyEvent(body, jitter) == [NoEvent EXCEPT !.type = "body", !.body = body, !.jitter = jitter]

RejectEvent(message, jitter) ==
  [NoEvent EXCEPT !.type = "reject", !.message = message, !.jitter = jitter]

AbortEvent(jitter) == [NoEvent EXCEPT !.type = "abort", !.jitter = jitter]

WakeEvent == [NoEvent EXCEPT !.type = "wake"]

\* What makeRequest does with an event it awaits.
Apply(c, e) ==
  CASE e.type = "respond" -> Responded(c, e.status, e.retryAfter, e.xRequestId)
    [] e.type = "body" -> OnResponse(c, e.body, e.jitter)
    [] e.type = "reject" -> Rejected(c, e.message, e.jitter)
    [] e.type = "abort" -> Aborted(c, e.jitter)
    [] e.type = "wake" -> Woken(c)

RECURSIVE Replay(_, _)
Replay(c, log) == IF log = <<>> THEN c ELSE Replay(Apply(c, Head(log)), Tail(log))

\* The call id made alone on a client constructed with ClientConfig, and fed
\* with log.
Alone(id, log) ==
  IF log = <<>> THEN NoCall
  ELSE Replay(Started(id, Head(log).options, ClientConfig), Tail(log))

\* The inputs of the two calls: each has a key of its own.
KeyOf(id) == IF id = "A" THEN "key-A" ELSE "key-B"

ConcurrentOptions(id) ==
  [idempotencyKey : {Omitted, Given(KeyOf(id))}, timeout : TimeoutOpts,
   maxNetworkRetries : {Omitted, Given(0)}]

ConcurrentStatuses == {200, 404, 503}

ConcurrentBody == JsonBody("m1")

ConcurrentJitter == 100

----------------------------------------------------------------------------
(* The inputs of the model. *)

\* The secrets senders sign with (one of them the endpoint's secret followed by
\* U+0000), and the one the endpoint is configured with.
Secrets == {<<"k">>, <<"w">>, <<"k", "u0000">>}

WEBHOOK_SECRET == <<"k">>

\* Payloads a sender signs: a JSON text and a string that is not JSON.
SignedPayloads == {<<"{", "}">>, <<"uFFFD">>}

\* Payloads an endpoint may be handed: strings, and Buffers holding the bytes
\* of "{}", of U+FFFD, and the single byte FF.
Payloads ==
  {StringPayload(<<"{", "}">>), StringPayload(<<"uFFFD">>), StringPayload(<<"1">>),
   BufferPayload(<<<<"7","b">>, <<"7","d">>>>), BufferPayload(ReplacementBytes),
   BufferPayload(<<<<"f","f">>>>)}

\* The tolerance argument: omitted, or given.
ToleranceOpts == {Omitted, Given(500), Given(0)}

\* The timestamp option of generateTestHeaderString: omitted, a time ahead of
\* every clock value of the model, or 0.
TimestampOpts == {Omitted, Given(Epoch + 1000), Given(0)}

\* The clock values at which calls are made.
ClockValues == {Epoch, Epoch + 300, Epoch + 301, Epoch + 400}

RECURSIVE Join(_)
\* parts.join(',')
Join(parts) ==
  IF Len(parts) = 1 THEN parts[1] ELSE parts[1] \o <<",">> \o Join(Tail(parts))

\* The timestamp a header states, for whoever writes a further field into it.
StatedTimestamp(hdr, clock) ==
  LET h == parseHeader(hdr) IN IF h.kind = "header" THEN h.timestamp ELSE clock

\* The t fields the transport (or another sender) may write: the current
\* time, a time long past, the current time followed by a letter, a negative
\* number, zero, a letter, and the bare key.
TimestampFields(clock) ==
  {<<"t", "=">> \o NumberToString(clock),
   <<"t", "=", "1">>,
   <<"t", "=">> \o NumberToString(clock) \o <<"x">>,
   <<"t", "=", "-", "5">>,
   <<"t", "=", "0">>,
   <<"t", "=", "x">>,
   <<"t">>}

\* The v1 fields it may write: a value that is no digest, the bare key, and
\* the digest, under each secret, of the payload at the header's timestamp.
SignatureFields(hdr, pl, clock) ==
  {<<"v", "1", "=", "a", "b">>, <<"v", "1">>}
  \cup {<<"v", "1", "=">> \o computeSignature(StatedTimestamp(hdr, clock), PayloadString(pl), s) :
          s \in Secrets}

Fields(hdr, pl, clock) == TimestampFields(clock) \cup SignatureFields(hdr, pl, clock)

----------------------------------------------------------------------------
(* The state: a webhook on its way to an endpoint, the two calls the        *)
(* endpoint makes on it, and a call of makeRequest.                        *)

VARIABLES
  now,        \* Math.floor(Date.now() / 1000)
  sent,       \* what generateTestHeaderString was called with, if it was
  payload,    \* the request body handed to the endpoint
  header,     \* the ACP-Signature header handed to the endpoint
  secret,     \* the endpoint's signing secret
  tolerance,  \* the tolerance argument of the endpoint's calls
  tampers,    \* how often the transport altered payload or header
  verified,   \* the call of verifySignature: made or not, and its result
  constructed, \* the call of constructEvent: made or not, and its outcome
  call,       \* the call of makeRequest: where it stands, its locals, its outcome
  config,     \* the config of the client, which every call is handed
  calls       \* two calls of makeRequest made side by side, and what each was fed

webhookVars == <<now, sent, payload, header, secret, tolerance, tampers, verified, constructed>>

pipelineVars == <<call, config, calls>>

vars == <<now, sent, payload, header, secret, tolerance, tampers, verified, constructed,
          call, config, calls>>

NotSent == [made |-> FALSE, payload |-> <<>>, secret |-> <<>>, option |-> <<>>,
            timestamp |-> 0, header |-> <<>>]

NotCalled == [made |-> FALSE, threw |-> FALSE, returned |-> FALSE]

NotConstructed == [made |-> FALSE, outcome |-> Thrown("")]

Init ==
  /\ now = Epoch
  /\ sent = NotSent
  /\ payload = StringPayload(<<"{", "}">>)
  /\ header = <<>>
  /\ secret = WEBHOOK_SECRET
  /\ tolerance \in ToleranceOpts
  /\ tampers = 0
  /\ verified = NotCalled
  /\ constructed = NotConstructed
  /\ call = NoCall
  /\ config = ClientConfig
  /\ calls = NoCalls

\* No call of the endpoint has been made yet: the inputs may still change.
Composing == ~verified.made /\ ~constructed.made

\* A sender signs a payload, before anything else happens:
\* Webhooks.generateTestHeaderString(opts).
CallGenerateTestHeaderString(p, s, tsOpt) ==
  /\ Composing
  /\ ~sent.made
  /\ tampers = 0
  /\ now = Epoch
  /\ header' = generateTestHeaderString(p, s, tsOpt, now)
  /\ payload' = StringPayload(p)
  /\ sent' = [made |-> TRUE, payload |-> p, secret |-> s, option |-> tsOpt,
              timestamp |-> IF tsOpt = Omitted THEN now ELSE tsOpt[1],
              header |-> generateTestHeaderString(p, s, tsOpt, now)]
  /\ UNCHANGED <<now, secret, tolerance, tampers, verified, constructed, pipelineVars>>

\* Time passes.
Tick(c) ==
  /\ Composing
  /\ c > now
  /\ now' = c
  /\ UNCHANGED <<sent, payload, header, secret, tolerance, tampers, verified, constructed,
                 pipelineVars>>

\* The body is replaced on the way.
SubstitutePayload(p) ==
  /\ Composing
  /\ tampers < MaxTamper
  /\ p # payload
  /\ payload' = p
  /\ tampers' = tampers + 1
  /\ UNCHANGED <<now, sent, header, secret, tolerance, verified, constructed, pipelineVars>>

\* A field is added at the end of the header.
AppendField(f) ==
  /\ Composing
  /\ tampers < MaxTamper
  /\ header' = IF header = <<>> THEN f ELSE header \o <<",">> \o f
  /\ tampers' = tampers + 1
  /\ UNCHANGED <<now, sent, payload, secret, tolerance, verified, constructed, pipelineVars>>

\* The first field of the header, where a generated header has its timestamp,
\* is overwritten.
ReplaceTimestampField(f) ==
  /\ Composing
  /\ tampers < MaxTamper
  /\ header # <<>>
  /\ header' = Join([split(header, ",") EXCEPT ![1] = f])
  /\ header' # header
  /\ tampers' = tampers + 1
  /\ UNCHANGED <<now, sent, payload, secret, tolerance, verified, constructed, pipelineVars>>

\* The endpoint calls Webhooks.verifySignature(payload, header, secret, tolerance).
CallVerifySignature ==
  /\ ~verified.made
  /\ verified' = [made |-> TRUE] @@ verifySignature(payload, header, secret, tolerance, now)
  /\ UNCHANGED <<now, sent, payload, header, secret, tolerance, tampers, constructed, pipelineVars>>

\* The endpoint calls Webhooks.constructEvent(payload, header, secret, tolerance).
CallConstructEvent ==
  /\ ~constructed.made
  /\ constructed' = [made |-> TRUE,
                     outcome |-> constructEvent(payload, header, secret, tolerance, now)]
  /\ UNCHANGED <<now, sent, payload, header, secret, tolerance, tampers, verified, pipelineVars>>

Next ==
  \/ \E p \in SignedPayloads, s \in Secrets, tsOpt \in TimestampOpts :
       CallGenerateTestHeaderString(p, s, tsOpt)
  \/ \E c \in ClockValues : Tick(c)
  \/ \E p \in Payloads : SubstitutePayload(p)
  \/ Composing /\ tampers < MaxTamper
       /\ \E f \in Fields(header, payload, now) : AppendField(f)
  \/ \E f \in TimestampFields(now) : ReplaceTimestampField(f)
  \/ CallVerifySignature
  \/ CallConstructEvent

Spec == Init /\ [][Next]_vars

----------------------------------------------------------------------------
(* The request pipeline: one call of makeRequest against a server and a     *)
(* network that answer, fail or stay silent.                               *)

PipelineInit ==
  /\ now = Epoch
  /\ sent = NotSent
  /\ payload = StringPayload(<<"{", "}">>)
  /\ header = <<>>
  /\ secret = WEBHOOK_SECRET
  /\ tolerance = Omitted
  /\ tampers = 0
  /\ verified = NotCalled
  /\ constructed = NotConstructed
  /\ call = NoCall
  /\ config = ClientConfig
  /\ calls = NoCalls

\* makeRequest(config, method, path, params, options), up to its first await.
CallMakeRequest(options) ==
  /\ call.pc = "idle"
  /\ call' = Started("A", options, config)
  /\ UNCHANGED <<webhookVars, config, calls>>

\* fetch resolves with a response.
Respond(status, retryAfter, xRequestId) ==
  /\ call.pc = "fetching"
  /\ call' = Responded(call, status, retryAfter, xRequestId)
  /\ UNCHANGED <<webhookVars, config, calls>>

\* response.json() settles, with the body or with a rejection.
ReadBody(body, jitter) ==
  /\ call.pc = "reading"
  /\ call' = OnResponse(call, body, jitter)
  /\ UNCHANGED <<webhookVars, config, calls>>

\* fetch rejects: the network failed.
NetworkFail(message, jitter) ==
  /\ call.pc = "fetching"
  /\ call' = Rejected(call, message, jitter)
  /\ UNCHANGED <<webhookVars, config, calls>>

\* The deadline of the attempt elapses with the timer armed:
\* controller.abort(), and fetch rejects with an AbortError.
Abort(jitter) ==
  /\ call.pc = "fetching"
  /\ call.timer = "armed"
  /\ call' = Aborted(call, jitter)
  /\ UNCHANGED <<webhookVars, config, calls>>

\* The time of the deadline passes while the body is awaited.
DeadlinePasses ==
  /\ call.pc = "reading"
  /\ ~call.overdue
  /\ call' = Overdue(call)
  /\ UNCHANGED <<webhookVars, config, calls>>

\* The sleep is over: continue.
Wake ==
  /\ call.pc = "sleeping"
  /\ call' = Woken(call)
  /\ UNCHANGED <<webhookVars, config, calls>>

PipelineNext ==
  \/ \E options \in RequestOptions : CallMakeRequest(options)
  \/ \E status \in Statuses, xRequestId \in XRequestIdHeaders :
       \E retryAfter \in RetryAfterHeadersOf(status) :
         Respond(status, retryAfter, xRequestId)
  \/ \E body \in Bodies, jitter \in Jitters : ReadBody(body, jitter)
  \/ \E message \in NetworkMessages, jitter \in Jitters : NetworkFail(message, jitter)
  \/ \E jitter \in Jitters : Abort(jitter)
  \/ DeadlinePasses
  \/ Wake

PipelineSpec == PipelineInit /\ [][PipelineNext]_vars

\* The same with what the timers guarantee: a sleep that was started ends
\* (setTimeout in sleep), the deadline timer of an attempt fires while fetch
\* is pending (setTimeout before fetch), and time passes while a body is
\* awaited. Nothing is assumed of the network: it may stay silent.
PipelineFairSpec ==
  /\ PipelineSpec
  /\ WF_vars(Wake)
  /\ WF_vars(\E jitter \in Jitters : Abort(jitter))
  /\ WF_vars(DeadlinePasses)

----------------------------------------------------------------------------
(* Two calls of makeRequest on one client, their awaits interleaved in any  *)
(* order.                                                                  *)

ConcurrentInit ==
  /\ now = Epoch
  /\ sent = NotSent
  /\ payload = StringPayload(<<"{", "}">>)
  /\ header = <<>>
  /\ secret = WEBHOOK_SECRET
  /\ tolerance = Omitted
  /\ tampers = 0
  /\ verified = NotCalled
  /\ constructed = NotConstructed
  /\ call = NoCall
  /\ config = ClientConfig
  /\ calls = NoCalls

\* The call id has moved to c on being fed e; the other call is where it was.
Fed(id, c, e) == calls' = [calls EXCEPT ![id] = [c |-> c, log |-> Append(@.log, e)]]

\* Mutant: the effective settings of the call are written into the config.
ConcurrentCall_ConfigOverwritten(id, options) ==
  /\ calls[id].c.pc = "idle"
  /\ Fed(id, Started(id, options, config), CallEvent(options))
  /\ config' = [config EXCEPT !.maxNetworkRetries =
                                IF options.maxNetworkRetries = Omitted THEN @
                                ELSE options.maxNetworkRetries[1]]
  /\ UNCHANGED <<webhookVars, call>>

\* ACP._makeRequest: makeRequest(this._config, ...) up to its first await.
ConcurrentCall(id, options) ==
  /\ calls[id].c.pc = "idle"
  /\ Fed(id, Started(id, options, config), CallEvent(options))
  /\ UNCHANGED <<webhookVars, call, config>>

\* fetch of the call resolves with a response.
ConcurrentRespond(id, status) ==
  /\ calls[id].c.pc = "fetching"
  /\ Fed(id, Responded(calls[id].c, status, Omitted, Omitted),
         RespondEvent(status, Omitted, Omitted))
  /\ UNCHANGED <<webhookVars, call, config>>

\* response.json() of the call settles.
ConcurrentReadBody(id) ==
  /\ calls[id].c.pc = "reading"
  /\ Fed(id, OnResponse(calls[id].c, ConcurrentBody, ConcurrentJitter),
         BodyEvent(ConcurrentBody, ConcurrentJitter))
  /\ UNCHANGED <<webhookVars, call, config>>

\* fetch of the call rejects: the network failed.
ConcurrentNetworkFail(id) ==
  /\ calls[id].c.pc = "fetching"
  /\ Fed(id, Rejected(calls[id].c, "fetch failed", ConcurrentJitter),
         RejectEvent("fetch failed", ConcurrentJitter))
  /\ UNCHANGED <<webhookVars, call, config>>

\* The deadline timer of the call's attempt fires.
ConcurrentAbort(id) ==
  /\ calls[id].c.pc = "fetching"
  /\ calls[id].c.timer = "armed"
  /\ Fed(id, Aborted(calls[id].c, ConcurrentJitter), AbortEvent(ConcurrentJitter))
  /\ UNCHANGED <<webhookVars, call, config>>

\* The sleep of the call is over.
ConcurrentWake(id) ==
  /\ calls[id].c.pc = "sleeping"
  /\ Fed(id, Woken(calls[id].c), WakeEvent)
  /\ UNCHANGED <<webhookVars, call, config>>

ConcurrentNext ==
  \E id \in CallIds :
    \/ \E options \in ConcurrentOptions(id) : ConcurrentCall(id, options)
    \/ \E status \in ConcurrentStatuses : ConcurrentRespond(id, status)
    \/ ConcurrentReadBody(id)
    \/ ConcurrentNetworkFail(id)
    \/ ConcurrentAbort(id)
    \/ ConcurrentWake(id)

ConcurrentSpec == ConcurrentInit /\ [][ConcurrentNext]_vars

----------------------------------------------------------------------------
(* One call with a large retry budget against a server that answers 503 and *)
(* a network that fails or stays silent: the backoff, attempt by attempt.   *)

BackoffOptions == [NoOptions EXCEPT !.maxNetworkRetries = Given(MaxBackoffRetries)]

BackoffNext ==
  \/ CallMakeRequest(BackoffOptions)
  \/ Respond(503, Omitted, Omitted)
  \/ \E jitter \in Jitters : ReadBody(JsonBody(""), jitter)
  \/ \E jitter \in Jitters : NetworkFail("fetch failed", jitter)
  \/ \E jitter \in Jitters : Abort(jitter)
  \/ Wake

BackoffSpec == PipelineInit /\ [][BackoffNext]_vars

----------------------------------------------------------------------------
(* What the claims speak of, read off the state.                           *)

\* The header handed to the endpoint, as parseHeader reads it.
Parsed == parseHeader(header)

\* The tolerance, in seconds, the endpoint's calls are made with.
CallTolerance == IF tolerance = Omitted THEN 300 ELSE tolerance[1]

\* The endpoint holds the payload and the header exactly as they were signed.
Untampered ==
  /\ sent.made
  /\ header = sent.header
  /\ payload.type = "string"
  /\ payload.data = sent.payload

\* The payload handed to the endpoint is not the one that was signed: another
\* string, or a Buffer whose bytes are not the bytes of the signed string.
PayloadDiffers ==
  IF payload.type = "string" THEN payload.data # sent.payload
  ELSE payload.data # Utf8Encode(sent.payload)

\* The timestamp of the parsed header h is older than now - tolerance.
StaleOf(h) == now - h.timestamp > CallTolerance

Stale == StaleOf(Parsed)

\* Some v1 value of the parsed header h is the digest of its timestamp, the
\* payload and the endpoint's secret.
MatchesOf(h) ==
  LET digest == computeSignature(h.timestamp, PayloadString(payload), secret)
  IN \E i \in 1..Len(h.signatures) : h.signatures[i] = digest

Matches == MatchesOf(Parsed)

\* The errors of the Parse stage.
ParseMessages == {NoHeaderMessage, NoTimestampMessage, NoSignatureMessage}

\* The comma-separated fields of the header, and the key and value of one.
HeaderFields == IF header = <<>> THEN <<>> ELSE split(header, ",")

FieldKey(f) == split(f, "=")[1]

FieldHasValue(f) == Len(split(f, "=")) >= 2

FieldValue(f) == split(f, "=")[2]

\* A positive integer numeral: digits only, not all of them 0.
IsPositiveNumeral(v) ==
  /\ v # <<>>
  /\ \A i \in 1..Len(v) : IsDigit(v[i])
  /\ \E i \in 1..Len(v) : v[i] # "0"

TFields == {i \in 1..Len(HeaderFields) : FieldKey(HeaderFields[i]) = <<"t">>}

V1Fields == {i \in 1..Len(HeaderFields) : FieldKey(HeaderFields[i]) = <<"v", "1">>}

\* The header is malformed in the sense of the header grammar: it is empty,
\* has no t field, has a t field whose value is not a positive integer
\* numeral, or has no v1 field.
Malformed ==
  \/ header = <<>>
  \/ TFields = {}
  \/ \E i \in TFields : \/ ~FieldHasValue(HeaderFields[i])
                        \/ ~IsPositiveNumeral(FieldValue(HeaderFields[i]))
  \/ V1Fields = {}

----------------------------------------------------------------------------
(* The claims. *)

\* C1: round trip. Verifying a payload with the header generated for it, with
\* the secret it was signed with, returns true whenever the timestamp is a
\* positive integer and now - timestamp <= tolerance.
C1_RoundTrip ==
  (/\ verified.made
   /\ Untampered
   /\ secret = sent.secret
   /\ sent.timestamp > 0
   /\ now - sent.timestamp <= CallTolerance)
  => (~verified.threw /\ verified.returned)

\* An event aged exactly the tolerance, some time after it was signed, verified.
C1_Witness ==
  /\ verified.made
  /\ Untampered
  /\ secret = sent.secret
  /\ now > sent.timestamp
  /\ now - sent.timestamp = CallTolerance
  /\ verified.returned

\* C2: tamper detection. With the header generated for p, the signing secret
\* and a fresh timestamp, every payload that differs from p makes
\* verifySignature return false and constructEvent raise the signature-mismatch
\* error.
C2_TamperDetected ==
  (/\ sent.made
   /\ header = sent.header
   /\ secret = sent.secret
   /\ sent.timestamp > 0
   /\ now - sent.timestamp <= CallTolerance
   /\ PayloadDiffers)
  => /\ verified.made => ~verified.returned
     /\ constructed.made => constructed.outcome.message = NoMatchMessage

\* C3: freshness is a hard gate. A header whose timestamp is older than
\* now - tolerance makes constructEvent raise the staleness error and
\* verifySignature return false, a valid signature notwithstanding.
C3_StaleRejected ==
  (verified.made \/ constructed.made)
  => LET h == Parsed
     IN (h.kind = "header" /\ StaleOf(h))
        => /\ constructed.made => /\ constructed.outcome.kind = "error"
                                  /\ constructed.outcome.message = TooOldMessage
           /\ verified.made => ~verified.returned

\* A stale event whose signature is valid for the payload and the secret,
\* rejected by both calls.
C3_Witness ==
  /\ constructed.made
  /\ verified.made
  /\ Untampered
  /\ secret = sent.secret
  /\ now - sent.timestamp > CallTolerance
  /\ constructed.outcome.message = TooOldMessage
  /\ ~verified.returned

\* C4: the freshness gate is exactly age > tolerance, the tolerance being 300
\* when the caller omits it and the caller's value otherwise: constructEvent
\* raises the staleness error exactly for such an age, and a validly signed
\* event verifies exactly when its age is at most the tolerance.
C4_FreshnessGate ==
  /\ constructed.made
     => LET h == Parsed
        IN h.kind = "header"
           => (constructed.outcome.message = TooOldMessage
                 <=> now - h.timestamp > CallTolerance)
  /\ (verified.made /\ Untampered /\ secret = sent.secret /\ sent.timestamp > 0)
     => (verified.returned <=> now - sent.timestamp <= CallTolerance)

\* An event aged exactly 300 seconds passes both calls under the default.
C4_Witness ==
  /\ constructed.made
  /\ verified.made
  /\ Untampered
  /\ secret = sent.secret
  /\ tolerance = Omitted
  /\ now - sent.timestamp = 300
  /\ constructed.outcome.message # TooOldMessage
  /\ verified.returned

\* C5: stage ordering. constructEvent reports the first failing stage of Parse,
\* Freshness, Signature match, payload decode: a malformed header gives the
\* parse error whatever else holds, and a stale header gives the staleness
\* error even when no signature matches.
C5_StageOrder ==
  constructed.made =>
    LET o == constructed.outcome
        json == JsonParses(PayloadString(payload))
        h == Parsed
        parses == h.kind = "header"
        stale == StaleOf(h)
        matches == MatchesOf(h)
    IN /\ ~parses => (o.kind = "error" /\ o.message = h.message
                        /\ o.message \in ParseMessages)
       /\ (parses /\ stale) => o.message = TooOldMessage
       /\ (parses /\ ~stale /\ ~matches) => o.message = NoMatchMessage
       /\ (parses /\ ~stale /\ matches /\ ~json) => o.message = BadJsonMessage
       /\ (parses /\ ~stale /\ matches /\ json) => o.kind = "event"

\* A header both stale and without a matching signature: the staleness error.
C5_Witness ==
  /\ constructed.made
  /\ Parsed.kind = "header"
  /\ Stale
  /\ ~Matches
  /\ constructed.outcome.message = TooOldMessage

\* C6: Parse rejects malformed headers. Whenever the header is empty, has no t
\* field, has a t value that is not a positive integer numeral, or has no v1
\* field, constructEvent raises a malformed-header error and verifySignature
\* returns false.
C6_MalformedRejected ==
  (verified.made \/ constructed.made)
  => (Malformed
      => /\ constructed.made => /\ constructed.outcome.kind = "error"
                                /\ constructed.outcome.message \in ParseMessages
         /\ verified.made => ~verified.returned)

\* C7: header grammar. A header in which the key t occurs more than once is
\* rejected as malformed.
C7_TimestampExactlyOnce ==
  (verified.made \/ constructed.made)
  => (Cardinality(TFields) > 1
      => /\ constructed.made => /\ constructed.outcome.kind = "error"
                                /\ constructed.outcome.message \in ParseMessages
         /\ verified.made => ~verified.returned)

\* C8: multi-signature match. For a parsed, fresh header the signature stage
\* passes exactly when some v1 value equals the digest of the parsed timestamp,
\* the payload and the secret, wherever it stands in the list and whatever the
\* other values are.
C8_MultiSignature ==
  (verified.made \/ constructed.made)
  => LET h == Parsed
         matches == MatchesOf(h)
     IN (h.kind = "header" /\ ~StaleOf(h))
        => /\ verified.made => (verified.returned <=> matches)
           /\ constructed.made => (constructed.outcome.message = NoMatchMessage <=> ~matches)

\* Two v1 values, the first not matching, the second matching: accepted.
C8_Witness ==
  /\ verified.made
  /\ Parsed.kind = "header"
  /\ ~Stale
  /\ Len(Parsed.signatures) >= 2
  /\ Parsed.signatures[1] # computeSignature(Parsed.timestamp, PayloadString(payload), secret)
  /\ Parsed.signatures[2] = computeSignature(Parsed.timestamp, PayloadString(payload), secret)
  /\ verified.returned

\* C9: verifySignature never throws. It returns a boolean, and false whenever
\* the Parse, Freshness or Signature stage fails.
C9_VerifyNeverThrows ==
  verified.made
  => /\ ~verified.threw
     /\ verified.returned \in BOOLEAN
     /\ verified.returned =>
          LET h == Parsed IN h.kind = "header" /\ ~StaleOf(h) /\ MatchesOf(h)

\* A header that fails Parse: false is returned, nothing is thrown.
C9_Witness ==
  /\ verified.made
  /\ Parsed.kind = "error"
  /\ ~verified.threw
  /\ ~verified.returned

\* C10: verifySignature and constructEvent agree. On the same payload, header,
\* secret, tolerance and clock value, constructEvent returns an envelope only
\* if verifySignature returns true, it raises whenever verifySignature returns
\* false, and an envelope is returned only for an input that passed Parse,
\* Freshness and Signature match.
C10_Agreement ==
  (verified.made /\ constructed.made)
  => /\ constructed.outcome.kind = "event" => verified.returned
     /\ ~verified.returned => constructed.outcome.kind = "error"
     /\ constructed.outcome.kind = "event" =>
          LET h == Parsed IN h.kind = "header" /\ ~StaleOf(h) /\ MatchesOf(h)

\* An event aged 400 seconds under a tolerance of 500: both calls accept it.
C10_Witness ==
  /\ verified.made
  /\ constructed.made
  /\ tolerance = Given(500)
  /\ Parsed.kind = "header"
  /\ now - Parsed.timestamp = 400
  /\ constructed.outcome.kind = "event"
  /\ verified.returned

\* C11: payload decode is the last step, and its failure is an error. When the
\* header parses, is fresh and a signature matches, constructEvent raises the
\* payload-decode error for a payload that is not JSON and returns no envelope;
\* for a JSON payload it returns the decoded value of the payload it verified.
\* The decode error is raised in no other case.
C11_DecodeLast ==
  constructed.made =>
    LET o == constructed.outcome
        h == Parsed
        passed == h.kind = "header" /\ ~StaleOf(h) /\ MatchesOf(h)
    IN /\ (passed /\ ~JsonParses(PayloadString(payload)))
            => (o.kind = "error" /\ o.message = BadJsonMessage /\ o.event = <<>>)
       /\ (passed /\ JsonParses(PayloadString(payload)))
            => (o.kind = "event" /\ o.event = PayloadString(payload))
       /\ o.message = BadJsonMessage => passed

\* A validly signed, fresh payload that is not JSON: the decode error.
C11_Witness ==
  /\ constructed.made
  /\ Untampered
  /\ secret = sent.secret
  /\ ~Stale
  /\ ~JsonParses(sent.payload)
  /\ constructed.outcome.kind = "error"
  /\ constructed.outcome.message = BadJsonMessage

\* C12: every failure constructEvent raises is an
\* ACPSignatureVerificationError of type 'signature_verification_error',
\* carrying one of the messages of the four stages; no other error escapes.
C12_SingleErrorKind ==
  (constructed.made /\ constructed.outcome.kind # "event")
  => /\ constructed.outcome.kind = "error"
     /\ constructed.outcome.name = "ACPSignatureVerificationError"
     /\ constructed.outcome.type = "signature_verification_error"
     /\ constructed.outcome.message \in
          ParseMessages \cup {TooOldMessage, NoMatchMessage, BadJsonMessage}

\* A Buffer payload that passes the signature stage and is not JSON: the
\* SyntaxError of JSON.parse reaches the caller as the library's error.
C12_Witness ==
  /\ constructed.made
  /\ payload.type = "Buffer"
  /\ JSONparse(PayloadString(payload)).name = "SyntaxError"
  /\ constructed.outcome.message = BadJsonMessage
  /\ constructed.outcome.name = "ACPSignatureVerificationError"

\* C13: secureCompare never throws. On the values constructEvent and
\* verifySignature compare (a v1 value of the header against the expected
\* digest) it returns false when the v1 value is missing or the two differ in
\* length, and for equal lengths it returns true exactly when they are equal.
C13_SecureCompare ==
  (verified.made \/ constructed.made)
  => LET h == Parsed
         b == computeSignature(h.timestamp, PayloadString(payload), secret)
     IN (h.kind = "header" /\ ~StaleOf(h))
        => \A i \in 1..Len(h.signatures) :
             LET a == h.signatures[i]
                 result == secureCompare(a, b)
             IN /\ result \in BOOLEAN
                /\ a = Undefined => ~result
                /\ (a # Undefined /\ Len(a) # Len(b)) => ~result
                /\ (a # Undefined /\ Len(a) = Len(b)) => (result <=> a = b)

\* A header with a v1 value as long as the expected digest and unequal to
\* it, and a v1 field without a value, for which Buffer.from throws: both
\* comparisons are false and the call reports no match.
C13_Witness ==
  /\ constructed.made
  /\ Parsed.kind = "header"
  /\ ~Stale
  /\ LET b == computeSignature(Parsed.timestamp, PayloadString(payload), secret)
     IN /\ \E i \in 1..Len(Parsed.signatures) :
             /\ Parsed.signatures[i] = Undefined
             /\ secureCompareTry(Parsed.signatures[i], b).threw
             /\ ~secureCompare(Parsed.signatures[i], b)
        /\ \E i \in 1..Len(Parsed.signatures) :
             /\ Parsed.signatures[i] # Undefined
             /\ Len(Parsed.signatures[i]) = Len(b)
             /\ ~secureCompare(Parsed.signatures[i], b)
  /\ constructed.outcome.message = NoMatchMessage

\* The payload and the header are as signed, and the timestamp is fresh.
FreshAsSigned ==
  /\ Untampered
  /\ sent.timestamp > 0
  /\ now - sent.timestamp <= CallTolerance

\* Both calls, where made, reject for want of a matching signature.
RejectedAsMismatch ==
  /\ verified.made => ~verified.returned
  /\ constructed.made => /\ constructed.outcome.kind = "error"
                          /\ constructed.outcome.message = NoMatchMessage

\* C14 as stated: secret binding. A header generated with one secret is
\* rejected when verified with any other secret.
C14_SecretBinding ==
  ((verified.made \/ constructed.made) /\ FreshAsSigned /\ secret # sent.secret)
  => RejectedAsMismatch

\* C14 as amended: a header generated with one secret is rejected when
\* verified with a secret whose HMAC key (its UTF-8 bytes, zero-padded to the
\* block size) is another.
C14_KeyBinding ==
  ((verified.made \/ constructed.made) /\ FreshAsSigned
     /\ HmacKey(Utf8Encode(secret)) # HmacKey(Utf8Encode(sent.secret)))
  => RejectedAsMismatch

\* Signed with one secret, verified with another, untouched and fresh: both
\* calls reject.
C14_Witness ==
  /\ verified.made
  /\ constructed.made
  /\ FreshAsSigned
  /\ HmacKey(Utf8Encode(secret)) # HmacKey(Utf8Encode(sent.secret))
  /\ ~verified.returned
  /\ constructed.outcome.message = NoMatchMessage

\* C15: generateTestHeaderString returns exactly 't=<timestamp>,v1=<digest>',
\* one t field and one v1 field, the digest being computeSignature(timestamp,
\* payload, secret); the timestamp is the one given, the current time in
\* seconds only when none is given, and with a timestamp given the result is
\* the same at every time of the call.
C15_HeaderFormat ==
  sent.made =>
    LET timestamp == IF sent.option = Omitted THEN Epoch ELSE sent.option[1]
        digest == computeSignature(timestamp, sent.payload, sent.secret)
        fields == split(sent.header, ",")
    IN /\ sent.header = <<"t", "=">> \o NumberToString(timestamp) \o <<",">>
                          \o <<"v", "1", "=">> \o digest
       /\ Len(fields) = 2
       /\ split(fields[1], "=") = <<<<"t">>, NumberToString(timestamp)>>
       /\ split(fields[2], "=") = <<<<"v", "1">>, digest>>
       /\ sent.option # Omitted =>
            \A c \in ClockValues :
              generateTestHeaderString(sent.payload, sent.secret, sent.option, c) = sent.header

\* A header generated with the timestamp 0 given: it states t=0, not the time
\* of the call.
C15_Witness ==
  /\ sent.made
  /\ sent.option = Given(0)
  /\ split(split(sent.header, ",")[1], "=") = <<<<"t">>, <<"0">>>>
  /\ now > 0

\* What verifySignature returns for another payload q, all else as it is.
VerifiesWith(q) == verifySignature(q, header, secret, tolerance, now).returned

\* What constructEvent does for another payload q, all else as it is.
ConstructsWith(q) == constructEvent(q, header, secret, tolerance, now)

\* C16: the signature is checked against the raw body. A Buffer payload gets
\* the outcome of the string holding the same bytes, and when a Buffer payload
\* is accepted no Buffer with other bytes is accepted under the same header
\* and secret.
C16_RawBody ==
  (verified.made /\ constructed.made /\ payload.type = "Buffer")
  => \A q \in Payloads :
       /\ (q.type = "string" /\ Utf8Encode(q.data) = payload.data)
            => /\ VerifiesWith(q) = verified.returned
               /\ ConstructsWith(q) = constructed.outcome
       /\ (q.type = "Buffer" /\ q.data # payload.data /\ verified.returned)
            => ~VerifiesWith(q)

\* A validly signed header of which only the t value was changed, to another
\* timestamp: the payload and the v1 field are as signed, the secret is the
\* signing secret, and h, the header as parsed, states another timestamp.
TimestampReplaced(h) ==
  /\ sent.made
  /\ secret = sent.secret
  /\ payload = StringPayload(sent.payload)
  /\ header # sent.header
  /\ LET fields == split(header, ",")
         signed == split(sent.header, ",")
     IN /\ Len(fields) = Len(signed)
        /\ Tail(fields) = Tail(signed)
        /\ split(fields[1], "=")[1] = <<"t">>
  /\ h.kind = "header"
  /\ h.timestamp # sent.timestamp

\* C38 as stated: the signature binds the timestamp. Changing only the t value
\* of a validly signed header to a different timestamp makes verifySignature
\* return false and constructEvent raise the signature-mismatch error.
C38_TimestampBinding ==
  (verified.made \/ constructed.made)
  => LET h == Parsed
     IN TimestampReplaced(h) => RejectedAsMismatch

\* C38 as amended: changing only the t value of a validly signed header to a
\* different timestamp makes verifySignature return false, and makes
\* constructEvent raise the signature-mismatch error when the new timestamp is
\* within the tolerance and the staleness error when it is older.
C38_TimestampBound ==
  (verified.made \/ constructed.made)
  => LET h == Parsed
     IN TimestampReplaced(h)
        => /\ verified.made => ~verified.returned
           /\ constructed.made
                => /\ constructed.outcome.kind = "error"
                   /\ constructed.outcome.message =
                        IF StaleOf(h) THEN TooOldMessage ELSE NoMatchMessage

\* A stale event replayed with the current time written over its timestamp:
\* both calls reject it for want of a matching signature.
C38_Witness ==
  /\ verified.made
  /\ constructed.made
  /\ TimestampReplaced(Parsed)
  /\ sent.timestamp > 0
  /\ now - sent.timestamp > CallTolerance
  /\ Parsed.timestamp = now
  /\ ~verified.returned
  /\ constructed.outcome.message = NoMatchMessage

\* C39: the freshness gate is one-sided. A header whose timestamp lies ahead
\* of the clock passes the freshness check under every tolerance that is not
\* negative: constructEvent does not raise the staleness error, and when a
\* signature matches verifySignature returns true and constructEvent returns
\* the event the payload decodes to.
C39_FutureTimestampPasses ==
  (verified.made \/ constructed.made)
  => LET h == Parsed
     IN (h.kind = "header" /\ h.timestamp > now /\ CallTolerance >= 0)
        => LET matches == MatchesOf(h)
               json == JsonParses(PayloadString(payload))
           IN /\ verified.made => verified.returned = matches
              /\ constructed.made
                   => /\ constructed.outcome.message # TooOldMessage
                      /\ (matches /\ json) => constructed.outcome.kind = "event"
                      /\ (matches /\ ~json) => constructed.outcome.message = BadJsonMessage
                      /\ ~matches => constructed.outcome.message = NoMatchMessage

\* An event signed for a time further ahead of the clock than the tolerance
\* is accepted by both calls.
C39_Witness ==
  /\ verified.made
  /\ constructed.made
  /\ Untampered
  /\ secret = sent.secret
  /\ sent.timestamp - now > CallTolerance
  /\ verified.returned
  /\ constructed.outcome.kind = "event"

----------------------------------------------------------------------------
(* The claims about the request pipeline, under PipelineSpec.              *)

\* The failure classes that are retried with exponential backoff.
BackoffClasses == {"5xx", "network", "timeout"}

\* The classes of the failures of the attempts made so far.
SeenClasses == {f.class : f \in call.seen}

\* The error kind of the taxonomy for a client error status.
ClientErrorKind(status) ==
  CASE status = 401 -> "ACPAuthenticationError"
    [] status = 403 -> "ACPPermissionError"
    [] status = 404 -> "ACPNotFoundError"
    [] OTHER -> "ACPInvalidRequestError"

\* C17: a response with a status in 400-499 other than 429 is terminal at any
\* attemptIndex and with any retry budget left: the call raises the error
\* classified for that status at once, with no sleep and no further attempt.
C17_ClientErrorTerminal ==
  (call.failure.status >= 400 /\ call.failure.status <= 499 /\ call.failure.status # 429)
  => /\ call.pc = "raised"
     /\ call.outcome.kind = "error"
     /\ call.outcome.name = ClientErrorKind(call.failure.status)
     /\ call.outcome.statusCode = call.failure.status
     /\ call.requests = call.attempt + 1
     /\ call.sleeps = call.attempt

\* A 404 at the second attempt of a call that could retry twice more.
C17_Witness ==
  /\ call.pc = "raised"
  /\ call.failure.status = 404
  /\ call.attempt = 1
  /\ call.maxRetries = 3
  /\ call.requests = 2
  /\ call.outcome.name = "ACPNotFoundError"

\* C18: 5xx, network and timeout failures are retried exactly while
\* attemptIndex < maxRetries. A call all of whose attempts so far failed in
\* these ways sleeps only while attemptIndex < maxRetries, and raises only
\* after exactly maxRetries + 1 physical attempts and maxRetries sleeps.
C18_RetryBudget ==
  (/\ call.maxRetries >= 0
   /\ call.pc # "returned"
   /\ SeenClasses # {}
   /\ SeenClasses \subseteq BackoffClasses)
  => /\ call.requests <= call.maxRetries + 1
     /\ call.pc = "sleeping" => call.attempt < call.maxRetries
     /\ call.pc = "raised" => /\ call.requests = call.maxRetries + 1
                              /\ call.sleeps = call.maxRetries

\* maxRetries = 2: a 5xx, a network failure and a timeout, then the call
\* raises after 3 attempts.
C18_Witness ==
  /\ call.pc = "raised"
  /\ call.maxRetries = 2
  /\ SeenClasses = BackoffClasses
  /\ call.requests = 3
  /\ call.sleeps = 2

\* maxRetries = 2, and three attempts all answered 503 have used up the budget.
ExhaustedBy503 ==
  /\ call.pc = "raised"
  /\ call.maxRetries = 2
  /\ call.requests = 3
  /\ call.seen = {[class |-> "5xx", status |-> 503]}

\* C19 as stated: when consecutive 503 responses exhaust the retry budget
\* (maxRetries = 2, three attempts), the error raised is an ACPConnectionError.
C19_ConnectionErrorOn503 ==
  ExhaustedBy503 => call.outcome.name = "ACPConnectionError"

\* C19 as amended: the error raised then is an ACPAPIError with status 503.
C19_APIErrorOn503 ==
  ExhaustedBy503 => /\ call.outcome.kind = "error"
                    /\ call.outcome.name = "ACPAPIError"
                    /\ call.outcome.statusCode = 503

\* Three 503 responses under maxRetries = 2, and the API error raised.
C19_Witness ==
  /\ ExhaustedBy503
  /\ call.failure.status = 503
  /\ call.outcome.name = "ACPAPIError"

\* C20: when retries are exhausted on 5xx, network or timeout failures, the
\* error raised carries the message of the failure of the final attempt: the
\* error message of the last response, or the message of the last network or
\* abort error.
C20_LastFailureMessage ==
  (call.pc = "raised" /\ call.failure.class \in BackoffClasses)
  => /\ call.outcome.kind = "error"
     /\ call.outcome.message.detail = call.failure.message

\* The seconds a Retry-After header of the model states, 1 when it is absent.
HintSeconds(retryAfter) ==
  CASE retryAfter = Omitted -> 1
    [] retryAfter = Given(<<"2">>) -> 2
    [] retryAfter = Given(<<"0">>) -> 0

\* C21: after a 429 response at attemptIndex < maxRetries the call retries,
\* and the delay before the next attempt is the Retry-After value in seconds
\* times 1000 ms, 1000 ms when the header is absent, whatever the attemptIndex
\* and whatever the jitter drawn.
C21_RetryAfterDelay ==
  (call.response.read /\ call.response.status = 429 /\ call.attempt < call.maxRetries)
  => /\ call.pc = "sleeping"
     /\ call.delay = HintSeconds(call.response.retryAfter) * 1000

\* A 429 with Retry-After: 2 at the third attempt: the sleep is 2000 ms.
C21_Witness ==
  /\ call.pc = "sleeping"
  /\ call.response.status = 429
  /\ call.response.retryAfter = Given(<<"2">>)
  /\ call.attempt = 2
  /\ call.delay = 2000

C23_RequestIdPerAttempt ==
  \A i \in 1..Len(call.wire) :
    /\ call.wire[i].requestId.by = "client"
    /\ call.wire[i].requestId.call = call.id
    /\ \A j \in 1..Len(call.wire) :
         i # j => call.wire[i].requestId # call.wire[j].requestId

\* Three attempts, three identifiers.
C23_Witness ==
  /\ Len(call.wire) = 3
  /\ Cardinality({call.wire[i].requestId : i \in 1..3}) = 3

\* C24: once an attempt receives a 2xx response, the call decodes and returns
\* that response: it neither sleeps nor makes a further attempt nor raises.
C24_SuccessEndsCall ==
  (call.response.read /\ Ok(call.response.status))
  => /\ call.pc = "returned"
     /\ call.outcome = Result(call.response.body)

\* C25: if an attempt succeeds (a 2xx response whose body decodes) after
\* failed retryable attempts, the caller receives exactly that attempt's
\* decoded result, with no error of an earlier attempt raised or attached; and
\* a call yields one outcome, a result or one error, which never changes.
C25_OnlyFinalOutcome ==
  /\ [](/\ (call.response.read /\ Ok(call.response.status) /\ call.response.body.json)
            => /\ call.pc = "returned"
               /\ call.outcome = Result(call.response.body)
        /\ call.pc = "returned" <=> call.outcome.kind = "result"
        /\ call.pc = "raised" <=> call.outcome.kind = "error"
        /\ call.pc \notin {"returned", "raised"} => call.outcome = NoOutcome)
  /\ [][call.pc \in {"returned", "raised"} => call' = call]_vars

\* A 429, a 503 and a timeout, then a 200 whose body is returned.
C25_Witness ==
  /\ call.pc = "returned"
  /\ SeenClasses = {"429", "5xx", "timeout"}
  /\ call.requests = 4
  /\ call.lastError.set
  /\ call.outcome = Result(JsonBody("m1"))

\* C26: every terminal error is annotated with a request identifier: the
\* x-request-id of the final attempt's response when there is one, otherwise
\* the identifier generated for the final attempt.
C26_TerminalErrorRequestId ==
  call.pc = "raised"
  => call.outcome.requestId =
       IF call.response.received /\ call.response.xRequestId # Omitted
       THEN call.response.xRequestId[1]
       ELSE call.headers.requestId

\* The error kind of the taxonomy for a status from 400 up.
TaxonomyKind(status) ==
  CASE status = 401 -> "ACPAuthenticationError"
    [] status = 403 -> "ACPPermissionError"
    [] status = 404 -> "ACPNotFoundError"
    [] status = 429 -> "ACPRateLimitError"
    [] status >= 400 /\ status <= 499 /\ status \notin {401, 403, 404, 429} ->
         "ACPInvalidRequestError"
    [] status >= 500 /\ status <= 599 -> "ACPAPIError"

\* C27: a terminal error raised for a response with status s is of the kind
\* the taxonomy gives for s (an invalid request error carrying the body's
\* param), and ACPError.generate gives that kind for every status and body, a
\* null body included.
C27_ErrorTaxonomy ==
  /\ (call.pc = "raised" /\ call.response.read /\ call.response.status >= 400)
     => /\ call.outcome.name = TaxonomyKind(call.response.status)
        /\ call.outcome.statusCode = call.response.status
        /\ call.outcome.name = "ACPInvalidRequestError"
             => call.outcome.param = call.response.body.param
  /\ \A s \in Statuses, b \in Bodies :
       (s >= 400 /\ b.json)
       => /\ ACPErrorGenerate(s, b, NoRequestId).name = TaxonomyKind(s)
          /\ ACPErrorGenerate(s, b, NoRequestId).statusCode = s
          /\ TaxonomyKind(s) = "ACPInvalidRequestError"
               => ACPErrorGenerate(s, b, NoRequestId).param = b.param

\* A 422 at the second attempt, its body naming the param items.
C27_Witness ==
  /\ call.pc = "raised"
  /\ call.response.status = 422
  /\ call.response.body = JsonBodyWithParam("m2", "items")
  /\ call.outcome.name = "ACPInvalidRequestError"
  /\ call.outcome.param = "items"
  /\ call.requests = 2

\* C28: at most one physical request of the call is in flight at any time,
\* and a request is issued only when none is in flight and the call is at its
\* start or at the end of the sleep that followed the previous attempt.
C28_SequentialAttempts ==
  /\ [](/\ call.inflight \in {0, 1}
        /\ call.inflight = 1 <=> call.pc \in {"fetching", "reading"})
  /\ [][call'.requests # call.requests
        => /\ call.inflight = 0
           /\ call.pc \in {"idle", "sleeping"}
           /\ call'.requests = call.requests + 1
           /\ call'.inflight = 1]_vars

\* The third request in flight, after two sleeps.
C28_Witness ==
  /\ call.pc = "fetching"
  /\ call.requests = 3
  /\ call.sleeps = 2
  /\ call.inflight = 1

\* C30: an attempt that has not completed when its deadline elapses is
\* aborted and classified as a timeout: it is retried with exponential backoff
\* while attemptIndex < maxRetries, and otherwise the call raises a connection
\* error.
C30_DeadlineBoundsAttempt ==
  call.overdue
  => /\ call.inflight = 0
     /\ call.failure.class = "timeout"
     /\ IF call.attempt < call.maxRetries
        THEN /\ call.pc = "sleeping"
             /\ call.delay \in {getBackoffMs(call.attempt, jitter) : jitter \in Jitters}
        ELSE /\ call.pc = "raised"
             /\ call.outcome.name = "ACPConnectionError"

\* C33: whatever mix of 429, 5xx, network and timeout failures occurs,
\* attemptIndex starts at 0 and rises by exactly 1 per physical attempt, and
\* the number of physical attempts never exceeds maxRetries + 1.
C33_SharedRetryBudget ==
  /\ [](call.pc # "idle"
          => /\ call.requests <= call.maxRetries + 1
             /\ call.pc \in {"fetching", "reading", "sleeping"}
                  => call.attempt = call.requests - 1
             /\ Len(call.wire) = call.requests)
  /\ [][call'.requests # call.requests
          => /\ call'.requests = call.requests + 1
             /\ call'.attempt = call.requests]_vars

\* A 429, a 503, a network failure and a timeout use up a budget of 3.
C33_Witness ==
  /\ call.pc = "raised"
  /\ call.maxRetries = 3
  /\ SeenClasses = {"429", "5xx", "network", "timeout"}
  /\ call.requests = 4

\* C34: each sleep follows a failed attempt and is followed by another
\* attempt, so that the number of sleeps is the number of attempts minus 1: no
\* sleep comes before the first attempt, after the last one, or before the
\* call returns or raises.
C34_SleepsBetweenAttempts ==
  /\ call.pc \in {"fetching", "reading", "returned", "raised"}
       => call.sleeps = call.requests - 1
  /\ call.pc = "sleeping"
       => /\ call.sleeps = call.requests
          /\ call.failure.class # "none"
          /\ LoopContinues(call.attempt + 1, call.maxRetries)

\* C37: every call issues at least one physical request before it returns or
\* raises, whatever its effective maxRetries, 0 and negative values included.
C37_AtLeastOneRequest ==
  call.pc \in {"returned", "raised"} => call.requests >= 1

\* The lesser of two numbers.
\* C35: every delay between attempts elapsing, and the network answering,
\* failing or staying silent, every makeRequest call that was made eventually
\* returns a result or raises a terminal error: no attempt waits forever.
C35_Termination == (call.pc # "idle") ~> (call.pc \in {"returned", "raised"})

\* C36: the deadline timer of an attempt is cancelled when the attempt ends,
\* by a response, by a network failure or by the abort itself: while the call
\* sleeps between attempts, and when makeRequest has returned or raised, no
\* deadline timer of the call is armed.
C36_NoTimerOutlivesAttempt ==
  call.pc \in {"sleeping", "returned", "raised"} => call.timer # "armed"

Min(a, b) == IF a < b THEN a ELSE b

\* C31: for a 5xx, network or timeout failure at attemptIndex k < maxRetries
\* the delay before the next attempt is min(500 * 2^k * j, 30000) ms for a
\* jitter factor j in [0.75, 1.25]: it lies between min(375 * 2^k, 30000) and
\* min(625 * 2^k, 30000) ms and never exceeds 30000 ms.
C31_BackoffBounds ==
  (call.pc = "sleeping" /\ call.failure.class \in BackoffClasses)
  => LET k == call.attempt
     IN /\ k < call.maxRetries
        /\ \E j \in 75..125 : call.delay = Min((500 * (2 ^ k) * j) \div 100, 30000)
        /\ call.delay >= Min(375 * (2 ^ k), 30000)
        /\ call.delay <= Min(625 * (2 ^ k), 30000)
        /\ call.delay <= 30000

\* The sleep after the seventh attempt (k = 6, base 32000 ms) failed on the
\* network: the cap of 30000 ms is reached.
C31_Witness ==
  /\ call.pc = "sleeping"
  /\ call.failure.class = "network"
  /\ SeenClasses = BackoffClasses
  /\ call.attempt = 6
  /\ call.delay = 30000

----------------------------------------------------------------------------
(* The claim about two calls, under ConcurrentSpec.                        *)

\* The maxRetries in effect for a call made with options on a client
\* constructed with ClientConfig.
EffectiveMaxRetries(options) ==
  IF options.maxNetworkRetries = Omitted THEN ClientConfig.maxNetworkRetries
  ELSE options.maxNetworkRetries[1]

\* The identifiers the requests of the call id have carried.
RequestIdsOf(id) ==
  {calls[id].c.wire[i].requestId : i \in 1..Len(calls[id].c.wire)}

\* C29: of two calls of makeRequest on one client, interleaved in any order,
\* each sends only its own idempotency key and its own request identifiers,
\* makes no more attempts than its own effective maxRetries allows, and is
\* where it would be had it been made alone and fed the same responses; and
\* the config of the client is as it was constructed.
C29_ConcurrentCallsIsolated ==
  /\ config = ClientConfig
  /\ RequestIdsOf("A") \cap RequestIdsOf("B") = {}
  /\ \A id \in CallIds :
       LET c == calls[id].c
       IN /\ c = Alone(id, calls[id].log)
          /\ c.pc # "idle" => c.requests <= EffectiveMaxRetries(c.options) + 1
          /\ \A i \in 1..Len(c.wire) :
               /\ c.wire[i].idempotencyKey = c.options.idempotencyKey
               /\ c.wire[i].idempotencyKey \in {Omitted, Given(KeyOf(id))}
               /\ c.wire[i].requestId.call = id

\* C32: the effective timeout and the effective maxRetries of a call are the
\* option of the call when it is supplied (maxNetworkRetries: 0 giving exactly
\* one attempt and no retry) and the client's configured value otherwise; an
\* override applies to that call only: the other call and the config are
\* as they were.
C32_PerCallOverrides ==
  /\ config = ClientConfig
  /\ \A id \in CallIds :
       LET c == calls[id].c
           o == c.options
       IN c.pc # "idle"
          => /\ c.timeout = IF o.timeout = Omitted THEN ClientConfig.timeout
                            ELSE o.timeout[1]
             /\ c.maxRetries = IF o.maxNetworkRetries = Omitted
                               THEN ClientConfig.maxNetworkRetries
                               ELSE o.maxNetworkRetries[1]
             /\ o.maxNetworkRetries = Given(0)
                  => c.requests = 1 /\ c.sleeps = 0 /\ c.pc # "sleeping"
             /\ (c.pc = "raised" /\ c.failure.class = "timeout")
                  => c.outcome.message.number = c.timeout

\* A, made with maxNetworkRetries: 0 and timeout: 1000, has raised the
\* timeout error of 1000 ms after its one attempt; B, made after it with
\* neither, is at its third attempt under the client's timeout.
C32_Witness ==
  /\ calls["A"].c.options.maxNetworkRetries = Given(0)
  /\ calls["A"].c.options.timeout = Given(1000)
  /\ calls["A"].c.pc = "raised"
  /\ calls["A"].c.requests = 1
  /\ calls["A"].c.outcome.message = Message("Request timeout after ms", 1000, "")
  /\ calls["B"].c.options.maxNetworkRetries = Omitted
  /\ calls["B"].c.options.timeout = Omitted
  /\ calls["B"].c.pc = "fetching"
  /\ calls["B"].c.requests = 3
  /\ calls["B"].c.timeout = DEFAULT_TIMEOUT
  /\ calls["B"].c.maxRetries = DEFAULT_MAX_RETRIES

\* A, made with its key and the client's budget, sleeps after its second
\* attempt, while B, made with its key and no retries, awaits a body.
C29_Witness ==
  /\ calls["A"].c.pc = "sleeping"
  /\ calls["A"].c.requests = 2
  /\ calls["A"].c.maxRetries = 2
  /\ calls["A"].c.options.idempotencyKey = Given("key-A")
  /\ calls["B"].c.pc = "reading"
  /\ calls["B"].c.maxRetries = 0
  /\ calls["B"].c.options.idempotencyKey = Given("key-B")

====
